---- MODULE Spec2Model ----
(***************************************************************************)
(* Model of jaxxgen: the Luhn check-digit generator of src/src/utils.ts    *)
(* and the React component App of src/src/App.tsx that calls it.           *)
(*                                                                         *)
(* A JavaScript string is a sequence of one-character strings.  A          *)
(* JavaScript number is a record [nan, v]: NaN is a value of its own, and  *)
(* every arithmetic step propagates it as IEEE-754 does.                   *)
(***************************************************************************)
EXTENDS Integers, Sequences, FiniteSets, TLC

VARIABLES
    \* ---- engine harness: one call of generateLuhn on a drawn argument
    partialNumber,   \* the argument
    outcome,         \* NotCalled, or how the call ended
    \* ---- validator harness (isValid of the specification)
    full,            \* a full number that satisfies isValid
    mutated,         \* full with one digit replaced (or full itself)
    mutPos,          \* the replaced position, 0 before any replacement
    \* ---- React state of App (src/src/App.tsx:41-52)
    bin, loading, error, binData, month, year, cvv, quantity, generatedCards,
    request,         \* the lookup of handleSubmit: "idle", "pending" (awaiting
                     \* fetch, line 70) or "parsing" (awaiting response.json(), line 76)
    \* ---- history
    lastEvent,       \* the handler that ran last
    sanitized,       \* the last BIN/CVV edit changed the raw field value
    luhnCalls,       \* every argument App has passed to generateLuhn
    \* ---- random-helper harness: one call of a helper on a drawn random source
    randSource,      \* the random source the call draws from
    randResult       \* NoRandomCall, or the helper called and the string it returned

engineVars == <<partialNumber, outcome>>
validVars  == <<full, mutated, mutPos>>
uiVars     == <<bin, loading, error, binData, month, year, cvv, quantity,
                generatedCards, request, lastEvent, sanitized, luhnCalls>>
randVars   == <<randSource, randResult>>
vars       == <<engineVars, validVars, uiVars, randVars>>

-----------------------------------------------------------------------------
(* Bounds *)

MaxPrefixLen == 4      \* longest argument drawn for generateLuhn (besides the known vectors)
MaxFullLen == 4        \* longest full number drawn for isValid

-----------------------------------------------------------------------------
(* Characters, strings, numbers *)

DigitChars == <<"0", "1", "2", "3", "4", "5", "6", "7", "8", "9">>
Digits == {DigitChars[i] : i \in 1..10}
NonDigits == {"a"}
Chars == Digits \cup NonDigits

StringsUpTo(alphabet, n) == UNION {[1..k -> alphabet] : k \in 0..n}

IsDigitString(s) == \A i \in 1..Len(s) : s[i] \in Digits

NaN == [nan |-> TRUE, v |-> 0]
Num(n) == [nan |-> FALSE, v |-> n]

\* parseInt of a one-character string: the digit's value, or NaN
parseInt(c) ==
    IF c \in Digits THEN Num((CHOOSE i \in 1..10 : DigitChars[i] = c) - 1) ELSE NaN

\* String(n) of a non-negative integer: its decimal digits
RECURSIVE DecimalString(_)
DecimalString(n) ==
    IF n < 10 THEN <<DigitChars[n + 1]>>
    ELSE Append(DecimalString(n \div 10), DigitChars[(n % 10) + 1])

\* String(x) of a JavaScript number that is NaN or a non-negative integer
NumberToString(x) == IF x.nan THEN <<"N", "a", "N">> ELSE DecimalString(x.v)

-----------------------------------------------------------------------------
(* generateLuhn, src/src/utils.ts:2-22 *)

\* lines 10-13: digit *= 2; if (digit > 9) digit -= 9   (NaN > 9 is false)
DoubleDigit(digit) ==
    IF digit.nan THEN NaN
    ELSE IF digit.v * 2 > 9 THEN Num(digit.v * 2 - 9) ELSE Num(digit.v * 2)

\* line 15: sum += digit
Plus(a, b) == IF a.nan \/ b.nan THEN NaN ELSE Num(a.v + b.v)

\* lines 7-17: the loop from i = length - 1 down to 0 (here i = Len down to 1)
RECURSIVE LuhnLoop(_, _, _, _)
LuhnLoop(s, i, sum, shouldDouble) ==
    IF i < 1 THEN sum
    ELSE LET digit == parseInt(s[i])
             term == IF shouldDouble THEN DoubleDigit(digit) ELSE digit
         IN  LuhnLoop(s, i - 1, Plus(sum, term), ~shouldDouble)

\* lines 3-4: let sum = 0; let shouldDouble = false
InitialShouldDouble == FALSE

LuhnSum(s) == LuhnLoop(s, Len(s), Num(0), InitialShouldDouble)

\* a plausible slip: the final % 10 is left out
CheckDigitNoModulo(sum) ==
    IF sum.nan THEN NaN ELSE Num((sum.v \div 10 + 1) * 10 - sum.v)

\* line 20: ((Math.floor(sum / 10) + 1) * 10 - sum) % 10
CheckDigit(sum) ==
    IF sum.nan THEN NaN ELSE Num(((sum.v \div 10 + 1) * 10 - sum.v) % 10)

\* a plausible slip: the prefix goes through a number, which drops leading zeros
RECURSIVE DropLeadingZeros(_)
DropLeadingZeros(s) ==
    IF Len(s) > 0 /\ s[1] = "0" THEN DropLeadingZeros(Tail(s)) ELSE s
generateLuhnViaNumber(s) == DropLeadingZeros(s) \o NumberToString(CheckDigit(LuhnSum(s)))

\* line 21: return partialNumber + checkDigit
generateLuhn(s) == s \o NumberToString(CheckDigit(LuhnSum(s)))

\* How a call ends.  The function has no throw statement and none of its
\* operations throws on a string argument, so every call returns.
NotCalled == [kind |-> "notCalled", value |-> <<>>]
CallGenerateLuhn(s) == [kind |-> "returned", value |-> generateLuhn(s)]

-----------------------------------------------------------------------------
(* isValid: the validator the specification defines (section 4.1).  The     *)
(* repository has no validator; this definition follows the specification.  *)

\* positions counted 1, 2, 3, ... from the right; position 1 is never doubled
RECURSIVE ValidSum(_, _)
ValidSum(s, pos) ==
    IF pos > Len(s) THEN 0
    ELSE LET d == parseInt(s[Len(s) + 1 - pos]).v
             dd == IF d * 2 > 9 THEN d * 2 - 9 ELSE d * 2
         IN  (IF pos % 2 = 0 THEN dd ELSE d) + ValidSum(s, pos + 1)

\* a plausible slip: the doubled digit is not reduced by 9
RECURSIVE ValidSumNoReduce(_, _)
ValidSumNoReduce(s, pos) ==
    IF pos > Len(s) THEN 0
    ELSE LET d == parseInt(s[Len(s) + 1 - pos]).v
         IN  (IF pos % 2 = 0 THEN d * 2 ELSE d) + ValidSumNoReduce(s, pos + 1)

isValidNoReduce(s) == Len(s) > 0 /\ IsDigitString(s) /\ ValidSumNoReduce(s, 1) % 10 = 0

isValid(s) == Len(s) > 0 /\ IsDigitString(s) /\ ValidSum(s, 1) % 10 = 0

-----------------------------------------------------------------------------
(* Engine harness: generateLuhn applied once to every drawn argument *)

KnownVector == <<"7", "9", "9", "2", "7", "3", "9", "8", "7", "1">>

EngineInputs == StringsUpTo(Chars, MaxPrefixLen) \cup {KnownVector}

ValidInputs == {s \in StringsUpTo(Digits, MaxFullLen) : isValid(s)}

-----------------------------------------------------------------------------
(* The random helpers, src/src/utils.ts:24-39 *)

RandScale == 12        \* Math.random() returns r / RandScale for an integer r in 0..RandScale-1
CurrentYear == 2026    \* new Date().getFullYear() on the day of the run

\* The process-wide random source: its k-th call returns Rand(src, k) / RandScale.
RandStrides == {0, 1, 7}
RandomSources == [seed : 0..(RandScale - 1), stride : RandStrides]
Rand(src, k) == (src.seed + k * src.stride) % RandScale

\* Math.floor(Math.random() * n) for the call numbered k
RandomBelow(n, src, k) == (Rand(src, k) * n) \div RandScale

\* Array.from({ length }, ...) makes no element for a length below 1
ArrayLength(length) == IF length < 0 THEN 0 ELSE length

\* line 25: Array.from({ length }, () => Math.floor(Math.random() * 10)).join('')
generateRandomDigits(length, src, k) ==
    [i \in 1..ArrayLength(length) |-> DigitChars[RandomBelow(10, src, k + i - 1) + 1]]

\* padStart(2, '0')
PadStart2(s) == IF Len(s) < 2 THEN <<"0">> \o s ELSE s

\* a plausible slip: the + 1 is left out, so months run from 0 to 11
generateRandomMonthZeroBased(src, k) == PadStart2(DecimalString(RandomBelow(12, src, k)))

\* line 29: String(Math.floor(Math.random() * 12) + 1).padStart(2, '0')
generateRandomMonth(src, k) == PadStart2(DecimalString(RandomBelow(12, src, k) + 1))

\* lines 33-34: String(currentYear + Math.floor(Math.random() * 5))
generateRandomYear(src, k) == DecimalString(CurrentYear + RandomBelow(5, src, k))

\* line 38: generateRandomDigits(3)
generateRandomCVV(src, k) == generateRandomDigits(3, src, k)

-----------------------------------------------------------------------------
(* App, src/src/App.tsx *)

Null == "<null>"
\* binData is null (line 44); a record, so that it compares with a BinResponse
NoData == [scheme |-> "<null>"]

\* line 54
quantityOptions == <<10, 50, 100, 200, 300, 400, 500>>
\* line 55: Array.from({ length: 12 }, (_, i) => String(i + 1).padStart(2, '0'))
months == [i \in 1..12 |-> PadStart2(DecimalString(i))]
\* line 57: Array.from({ length: 16 }, (_, i) => String(currentYear + i))
years == [i \in 1..16 |-> DecimalString(CurrentYear + i - 1)]

\* The field values an edit event delivers (e.target.value): strings of the
\* characters typed or pasted, with a bounded number of non-digits among them.
UIChars == {"4", "a"}
MaxRawLen == 7
MaxCvvRawLen == 4
MaxNonDigits == 2
NonDigitCount(s) == Cardinality({i \in 1..Len(s) : s[i] \notin Digits})
RawValues(n) == {s \in StringsUpTo(UIChars, n) : NonDigitCount(s) <= MaxNonDigits}
RawBinValues == RawValues(MaxRawLen)
RawCvvValues == RawValues(MaxCvvRawLen)
\* The options picked in the month and year selectors ('' is "Random").
MonthChoices == {<<>>, months[12]}
YearChoices == {<<>>, years[16]}
\* The quantity buttons clicked: the first and the last option
QuantityChoices == {quantityOptions[1], quantityOptions[Len(quantityOptions)]}
\* The bodies the lookup service answers with (data.scheme)
SchemeAnswers == {"visa", ""}

\* value.replace(/\D/g, '')
\* a plausible slip: the field value is only cut, not filtered
StripNothing(s) == s
StripNonDigits(s) == SelectSeq(s, LAMBDA c : c \in Digits)

\* value.slice(0, n)
Slice0(s, n) == SubSeq(s, 1, IF Len(s) < n THEN Len(s) ELSE n)

\* lines 211 and 341: setBin(e.target.value.replace(/\D/g, '').slice(0, 6))
BinFieldValue(raw) == Slice0(StripNonDigits(raw), 6)
\* line 381: e.target.value.replace(/\D/g, '').slice(0, 3)
CvvFieldValue(raw) == Slice0(StripNonDigits(raw), 3)

\* lines 109-110: bin + generateRandomDigits(15 - bin.length)
CardNumber(b, src, k) == b \o generateRandomDigits(15 - Len(b), src, k)

\* lines 109-115: one iteration of the loop; k numbers the next Math.random() call
OneCard(b, m, y, c, src, k) ==
    LET k1 == k + ArrayLength(15 - Len(b))
        cardNumber == CardNumber(b, src, k)
        validCardNumber == generateLuhn(cardNumber)
        cardMonth == IF m # <<>> THEN m ELSE generateRandomMonth(src, k1)
        k2 == IF m # <<>> THEN k1 ELSE k1 + 1
        cardYear == IF y # <<>> THEN y ELSE generateRandomYear(src, k2)
        k3 == IF y # <<>> THEN k2 ELSE k2 + 1
        cardCVV == IF c # <<>> THEN c ELSE generateRandomCVV(src, k3)
        k4 == IF c # <<>> THEN k3 ELSE k3 + 3
    IN  [card |-> validCardNumber \o <<"|">> \o cardMonth \o <<"|">> \o cardYear
                  \o <<"|">> \o cardCVV,
         arg |-> cardNumber,
         next |-> k4]

\* lines 107-116: for (let i = 0; i < quantity; i++) { ... cards.push(...) }
RECURSIVE CardsLoop(_, _, _, _, _, _, _, _, _, _)
CardsLoop(i, q, b, m, y, c, src, k, cards, args) ==
    IF i >= q THEN [cards |-> cards, args |-> args]
    ELSE LET one == OneCard(b, m, y, c, src, k)
         IN  CardsLoop(i + 1, q, b, m, y, c, src, one.next,
                       Append(cards, one.card), args \cup {one.arg})

\* line 97: if (bin.length !== 14)
BinLengthRejected(b) == Len(b) # 14
\* line 102: if (cvv && cvv.length !== 3)
CvvRejected(c) == c # <<>> /\ Len(c) # 3

-----------------------------------------------------------------------------
(* Initial states *)

\* lines 41-52: the useState initial values
UIInit ==
    /\ bin = <<>>
    /\ loading = FALSE
    /\ error = Null
    /\ binData = NoData
    /\ month = <<>>
    /\ year = <<>>
    /\ cvv = <<>>
    /\ quantity = 10
    /\ generatedCards = <<>>
    /\ request = "idle"
    /\ lastEvent = "init"
    /\ sanitized = FALSE
    /\ luhnCalls = {}

EngineIdle == partialNumber = <<>> /\ outcome = NotCalled
ValidIdle == full = <<>> /\ mutated = <<>> /\ mutPos = 0
NoRandomCall == [helper |-> "none", value |-> <<>>]
RandIdle == randSource = [seed |-> 0, stride |-> 0] /\ randResult = NoRandomCall

-----------------------------------------------------------------------------
(* Handlers of App *)

\* lines 211, 341: onChange of either BIN input
SetBin(raw) ==
    /\ bin' = BinFieldValue(raw)
    /\ sanitized' = (BinFieldValue(raw) # raw)
    /\ lastEvent' = "setBin"
    /\ UNCHANGED <<loading, error, binData, month, year, cvv, quantity,
                   generatedCards, request, luhnCalls, engineVars, validVars, randVars>>

\* lines 380-383: onChange of the CVV input
SetCvv(raw) ==
    /\ cvv' = CvvFieldValue(raw)
    /\ sanitized' = (CvvFieldValue(raw) # raw)
    /\ lastEvent' = "setCvv"
    /\ UNCHANGED <<bin, loading, error, binData, month, year, quantity,
                   generatedCards, request, luhnCalls, engineVars, validVars, randVars>>

\* line 353: onChange of the month selector
SetMonth(m) ==
    /\ month' = m
    /\ lastEvent' = "select"
    /\ UNCHANGED <<bin, loading, error, binData, year, cvv, quantity,
                   generatedCards, request, sanitized, luhnCalls, engineVars, validVars, randVars>>

\* line 366: onChange of the year selector
SetYear(y) ==
    /\ year' = y
    /\ lastEvent' = "select"
    /\ UNCHANGED <<bin, loading, error, binData, month, cvv, quantity,
                   generatedCards, request, sanitized, luhnCalls, engineVars, validVars, randVars>>

\* line 399: onClick of a quantity button
SetQuantity(option) ==
    /\ quantity' = option
    /\ lastEvent' = "select"
    /\ UNCHANGED <<bin, loading, error, binData, month, year, cvv,
                   generatedCards, request, sanitized, luhnCalls, engineVars, validVars, randVars>>

\* lines 96-118: generateCards
GenerateCards ==
    /\ lastEvent' = "generateCards"
    /\ IF BinLengthRejected(bin)
       THEN /\ error' = "Please enter a valid 6-digit BIN first"
            /\ UNCHANGED <<generatedCards, luhnCalls>>
       ELSE IF CvvRejected(cvv)
       THEN /\ error' = "CVV must be 3 digits"
            /\ UNCHANGED <<generatedCards, luhnCalls>>
       ELSE \E src \in RandomSources :
                LET r == CardsLoop(0, quantity, bin, month, year, cvv, src, 0, <<>>, {})
                IN  /\ generatedCards' = r.cards
                    /\ luhnCalls' = luhnCalls \cup r.args
                    /\ UNCHANGED error
    /\ UNCHANGED <<bin, loading, binData, month, year, cvv, quantity, request, sanitized,
                   engineVars, validVars, randVars>>

\* lines 59-68: handleSubmit up to the fetch.  The form's only submit button
\* is disabled while loading (line 218), so no submit event fires then.
HandleSubmit ==
    /\ ~loading
    /\ lastEvent' = "handleSubmit"
    /\ IF Len(bin) # 6
       THEN /\ error' = "Please enter a valid 6-digit BIN"
            /\ UNCHANGED <<loading, request>>
       ELSE /\ loading' = TRUE
            /\ error' = Null
            /\ request' = "pending"
    /\ UNCHANGED <<bin, binData, month, year, cvv, quantity, generatedCards,
                   sanitized, luhnCalls, engineVars, validVars, randVars>>

\* lines 70-72: fetch resolves with response.ok; handleSubmit goes on to
\* await response.json()
ResponseArrives ==
    /\ request = "pending"
    /\ request' = "parsing"
    /\ lastEvent' = "responseArrived"
    /\ UNCHANGED <<bin, loading, error, binData, month, year, cvv, quantity,
                   generatedCards, sanitized, luhnCalls, engineVars, validVars, randVars>>

\* lines 76-88, 91-93: the body parses; setBinData, then the finally block
ResponseOk(scheme) ==
    /\ request = "parsing"
    /\ request' = "idle"
    /\ binData' = [scheme |-> IF scheme = "" THEN "Unknown" ELSE scheme]
    /\ loading' = FALSE
    /\ lastEvent' = "responseOk"
    /\ UNCHANGED <<bin, error, month, year, cvv, quantity, generatedCards,
                   sanitized, luhnCalls, engineVars, validVars, randVars>>

\* What sends handleSubmit into its catch block: fetch rejects (line 70), the
\* response is not ok (lines 72-74), or response.json() rejects or yields null,
\* on which data.scheme throws (lines 76-78)
FailureCauses == {"fetchRejected", "responseNotOk", "bodyRejected"}
FailureStage(cause) == IF cause = "bodyRejected" THEN "parsing" ELSE "pending"
NetworkError == "Network error. Please check your connection and try again."

\* a plausible slip: setLoading(false) only on the success path, no finally block
ResponseFailedNoFinally(cause) ==
    /\ request = FailureStage(cause)
    /\ request' = "idle"
    /\ error' = NetworkError
    /\ lastEvent' = cause
    /\ UNCHANGED <<bin, loading, binData, month, year, cvv, quantity, generatedCards,
                   sanitized, luhnCalls, engineVars, validVars, randVars>>

\* lines 89-93: the catch block, then the finally block
ResponseFailed(cause) ==
    /\ request = FailureStage(cause)
    /\ request' = "idle"
    /\ error' = NetworkError
    /\ loading' = FALSE
    /\ lastEvent' = cause
    /\ UNCHANGED <<bin, binData, month, year, cvv, quantity, generatedCards,
                   sanitized, luhnCalls, engineVars, validVars, randVars>>

EditBin == \E raw \in RawBinValues : SetBin(raw)
EditCvv == \E raw \in RawCvvValues : SetCvv(raw)
SelectMonth == \E m \in MonthChoices : SetMonth(m)
SelectYear == \E y \in YearChoices : SetYear(y)
SelectQuantity == \E option \in QuantityChoices : SetQuantity(option)
LookupAnswers == \E scheme \in SchemeAnswers : ResponseOk(scheme)
LookupFails == \E cause \in FailureCauses : ResponseFailed(cause)

Init == UIInit /\ EngineIdle /\ ValidIdle /\ RandIdle

Next ==
    \/ EditBin
    \/ EditCvv
    \/ SelectMonth
    \/ SelectYear
    \/ SelectQuantity
    \/ GenerateCards
    \/ HandleSubmit
    \/ ResponseArrives
    \/ LookupAnswers
    \/ LookupFails

Spec == Init /\ [][Next]_vars

-----------------------------------------------------------------------------
(* Engine harness *)

InitEngine ==
    /\ partialNumber \in EngineInputs
    /\ outcome = NotCalled
    /\ UIInit /\ ValidIdle /\ RandIdle

CallEngine ==
    /\ outcome = NotCalled
    /\ outcome' = CallGenerateLuhn(partialNumber)
    /\ UNCHANGED <<partialNumber, validVars, uiVars, randVars>>

NextEngine == CallEngine

SpecEngine == InitEngine /\ [][NextEngine]_vars

-----------------------------------------------------------------------------
(* Random-helper harness: each helper called once on every drawn source.    *)
(* The first call of Math.random() returns seed / RandScale, the next ones   *)
(* advance by stride, so every value of the scaled range is drawn.           *)

HarnessSources == [seed : 0..(RandScale - 1), stride : 0..(RandScale - 1)]

InitRandom ==
    /\ randSource \in HarnessSources
    /\ randResult = NoRandomCall
    /\ UIInit /\ EngineIdle /\ ValidIdle

CallRandomMonth ==
    /\ randResult = NoRandomCall
    /\ randResult' = [helper |-> "generateRandomMonth",
                      value |-> generateRandomMonth(randSource, 0)]
    /\ UNCHANGED <<randSource, engineVars, validVars, uiVars>>

CallRandomYear ==
    /\ randResult = NoRandomCall
    /\ randResult' = [helper |-> "generateRandomYear",
                      value |-> generateRandomYear(randSource, 0)]
    /\ UNCHANGED <<randSource, engineVars, validVars, uiVars>>

CallRandomCVV ==
    /\ randResult = NoRandomCall
    /\ randResult' = [helper |-> "generateRandomCVV",
                      value |-> generateRandomCVV(randSource, 0)]
    /\ UNCHANGED <<randSource, engineVars, validVars, uiVars>>

NextRandom == CallRandomMonth \/ CallRandomYear \/ CallRandomCVV

SpecRandom == InitRandom /\ [][NextRandom]_vars

-----------------------------------------------------------------------------
(* Validator harness: one digit of a valid full number is replaced *)

InitValidator ==
    /\ full \in ValidInputs
    /\ mutated = full
    /\ mutPos = 0
    /\ UIInit /\ EngineIdle /\ RandIdle

ReplaceDigit ==
    /\ mutPos = 0
    /\ \E pos \in 1..Len(full) : \E d \in Digits \ {full[pos]} :
           /\ mutated' = [full EXCEPT ![pos] = d]
           /\ mutPos' = pos
    /\ UNCHANGED <<full, engineVars, uiVars, randVars>>

NextValidator == ReplaceDigit

SpecValidator == InitValidator /\ [][NextValidator]_vars

-----------------------------------------------------------------------------
(* Properties of generateLuhn, checked under SpecEngine *)

Returned == outcome.kind = "returned"
ValidPrefix == Len(partialNumber) > 0 /\ IsDigitString(partialNumber)
LastChar(s) == s[Len(s)]

\* C1: for every non-empty digit string p, the string generateLuhn returns
\* satisfies isValid (Luhn sum over the full string divisible by 10).
C1_RoundTrip == (Returned /\ ValidPrefix) => isValid(outcome.value)

\* C2: generateLuhn("7992739871") returns "79927398713".
C2_KnownVector ==
    (Returned /\ partialNumber = KnownVector) => outcome.value = KnownVector \o <<"3">>

\* C3: on the empty string or a string with a non-digit character the call
\* fails with InvalidInput and returns no string.
C3_InvalidInput ==
    (outcome # NotCalled /\ ~ValidPrefix) => outcome.kind = "InvalidInput"

\* C4: for every non-empty digit-string prefix the result is the prefix,
\* unchanged (leading zeros included), followed by exactly one decimal digit.
C4_PrefixPlusOneDigit ==
    (Returned /\ ValidPrefix) =>
        /\ Len(outcome.value) = Len(partialNumber) + 1
        /\ SubSeq(outcome.value, 1, Len(partialNumber)) = partialNumber
        /\ LastChar(outcome.value) \in Digits

C4_Witness ==
    /\ Returned
    /\ Len(partialNumber) = 3
    /\ partialNumber[1] = "0" /\ partialNumber[2] = "0"
    /\ outcome.value = <<"0", "0", "7", "3">>

\* C5: for a prefix of one digit d the result is d followed by
\* (10 - double(d)) mod 10, double(d) being 2d reduced by 9 above 9; "4" gives "42".
DoubledValue(d) == IF 2 * d > 9 THEN 2 * d - 9 ELSE 2 * d
C5_SingleDigitDoubled ==
    (Returned /\ ValidPrefix /\ Len(partialNumber) = 1) =>
        outcome.value =
            partialNumber \o
            <<DigitChars[((10 - (DoubledValue(parseInt(partialNumber[1]).v) % 10)) % 10) + 1]>>

\* C8: the appended digit is the reference check digit: digits of the prefix
\* numbered 1, 2, 3, ... from the right, odd positions doubled (reduced by 9
\* above 9), even positions as they are, summed, then (10 - sum mod 10) mod 10.
RECURSIVE ReferenceSum(_, _)
ReferenceSum(s, pos) ==
    IF pos > Len(s) THEN 0
    ELSE LET d == parseInt(s[Len(s) + 1 - pos]).v
         IN  (IF pos % 2 = 1 THEN DoubledValue(d) ELSE d) + ReferenceSum(s, pos + 1)
ReferenceCheckDigit(s) == (10 - (ReferenceSum(s, 1) % 10)) % 10

C8_ReferenceCheckDigit ==
    (Returned /\ ValidPrefix) =>
        LastChar(outcome.value) = DigitChars[ReferenceCheckDigit(partialNumber) + 1]

\* C9: for the sum of every digit string, the expression of line 20,
\* ((floor(sum / 10) + 1) * 10 - sum) mod 10, equals (10 - (sum mod 10)) mod 10,
\* lies in 0..9, and is the digit the call appends.
C9_CheckDigitExpression ==
    (Returned /\ IsDigitString(partialNumber)) =>
        LET sum == LuhnSum(partialNumber)
            expected == (10 - (sum.v % 10)) % 10
        IN  /\ ~sum.nan
            /\ sum.v \in 0..(9 * Len(partialNumber))
            /\ CheckDigit(sum) = Num(expected)
            /\ expected \in 0..9
            /\ outcome.value = partialNumber \o <<DigitChars[expected + 1]>>

C9_Witness ==
    /\ Returned
    /\ IsDigitString(partialNumber)
    /\ LuhnSum(partialNumber) = Num(10)
    /\ LastChar(outcome.value) = "0"

-----------------------------------------------------------------------------
(* Property of isValid, checked under SpecValidator *)

\* C6: replacing the digit at any one position of a valid full number by any
\* different digit gives a string for which isValid is false.
C6_SingleDigitErrorDetected == mutPos # 0 => ~isValid(mutated)

C6_Witness ==
    /\ mutPos # 0
    /\ isValid(full)
    /\ Len(full) = 4
    /\ (Len(full) + 1 - mutPos) % 2 = 0
    /\ full[mutPos] = "0"
    /\ mutated[mutPos] = "9"

-----------------------------------------------------------------------------
(* Properties of App, checked under Spec *)

\* C7: generateCards run with a 6-digit BIN and a CVV that is empty or has 3
\* digits replaces generatedCards by exactly `quantity` entries; only a BIN
\* that is not a 6-digit BIN gets the error and leaves generatedCards as it was.
C7_SixDigitBinGenerates ==
    (lastEvent = "generateCards" /\ Len(bin) = 6 /\ ~CvvRejected(cvv)) =>
        /\ Len(generatedCards) = quantity
        /\ error # "Please enter a valid 6-digit BIN first"

\* C10: the BIN field only ever holds at most 6 digit characters, every
\* argument App has passed to generateLuhn is a non-empty digit string, and so
\* is the argument generateCards builds from the BIN field (lines 109-110)
\* for every value of the random source.
NonEmptyDigitString(s) == Len(s) > 0 /\ IsDigitString(s)
C10_LuhnArgumentIsDigits ==
    /\ Len(bin) <= 6
    /\ IsDigitString(bin)
    /\ \A arg \in luhnCalls : NonEmptyDigitString(arg)
    /\ \A src \in RandomSources : NonEmptyDigitString(CardNumber(bin, src, 0))

C10_Witness ==
    /\ lastEvent = "setBin"
    /\ sanitized
    /\ Len(bin) = 6

-----------------------------------------------------------------------------
(* Properties of the random helpers, checked under SpecRandom *)

SeqRange(s) == {s[i] : i \in 1..Len(s)}

\* C11: for every value the random source returns, generateRandomMonth
\* returns a two-character zero-padded month "01".."12", generateRandomYear a
\* year in currentYear..currentYear+4 (one of the 16 years of the selector),
\* and generateRandomCVV exactly three decimal digits.
C11_RandomHelperRanges ==
    /\ randResult.helper = "generateRandomMonth" =>
           /\ Len(randResult.value) = 2
           /\ randResult.value \in {PadStart2(DecimalString(m)) : m \in 1..12}
           /\ randResult.value \in SeqRange(months)
    /\ randResult.helper = "generateRandomYear" =>
           /\ randResult.value \in {DecimalString(CurrentYear + i) : i \in 0..4}
           /\ randResult.value \in SeqRange(years)
    /\ randResult.helper = "generateRandomCVV" =>
           /\ Len(randResult.value) = 3
           /\ IsDigitString(randResult.value)

C11_Witness ==
    /\ randResult.helper = "generateRandomMonth"
    /\ randSource.seed = RandScale - 1
    /\ randResult.value = <<"1", "2">>

-----------------------------------------------------------------------------
(* Property of handleSubmit, checked under Spec *)

\* C12: a submit with a BIN that has not exactly 6 characters sets the error,
\* starts no request and leaves loading and binData as they were; with 6
\* characters it sets loading and clears the error before the request; when
\* the request settles (success, response not ok, or a thrown failure) loading
\* is false again, so loading is never left true once the lookup is over;
\* binData changes only on a successful response, and every failure sets a
\* non-null error.
C12_SubmitStep ==
    /\ (lastEvent' = "handleSubmit" /\ Len(bin) # 6) =>
           /\ error' = "Please enter a valid 6-digit BIN"
           /\ request = "idle" /\ request' = "idle"
           /\ loading' = loading
           /\ binData' = binData
    /\ (lastEvent' = "handleSubmit" /\ Len(bin) = 6) =>
           /\ request = "idle" /\ request' = "pending"
           /\ loading'
           /\ error' = Null
           /\ binData' = binData
    /\ (request # "idle" /\ request' = "idle") =>
           /\ ~loading'
           /\ lastEvent' \in FailureCauses \cup {"responseOk"}
    /\ binData' # binData => lastEvent' = "responseOk"
    /\ lastEvent' = "responseOk" => (binData' # NoData /\ error' = error)
    /\ lastEvent' \in FailureCauses => (error' # Null /\ binData' = binData)

C12_LookupLifecycle ==
    /\ [](request = "idle" => ~loading)
    /\ [][C12_SubmitStep]_vars

C12_Witness ==
    /\ lastEvent = "bodyRejected"
    /\ request = "idle"
    /\ ~loading
    /\ error = NetworkError
    /\ binData # NoData
    /\ Len(bin) = 6

====
